---------------------------- MODULE Spec2Model ----------------------------
(* Model of mergify_engine/rules/__init__.py: the pull-request rule       *)
(* matcher (PullRequestRules.PullRequestRuleForPR), the branch policy     *)
(* resolver (build_branch_rule, get_merged_branch_rule, _dict_merge,      *)
(* get_branch_rule) and the configuration loader (get_mergify_config).    *)
EXTENDS Integers, Sequences, FiniteSets, TLC

VARIABLES
    rules,            \* PullRequestRules.rules: the ordered rule list
    pull_request,     \* the pull request last handed to get_pull_request_rule
    matching_rules,   \* PullRequestRuleForPR.matching_rules of that call
    repository,       \* what repository.get_contents gives for each ref
    ref,              \* the ref last handed to get_mergify_config
    outcome,          \* how that call ended: a return or a raised exception
    heap,             \* the dict objects: identity -> (key -> value)
    insertion,        \* the keys of rules["branches"] in insertion order
    heap0,            \* the heap as first loaded, before any call
    pre,              \* the heap when the last call was made
    op,               \* the last call made
    branch,           \* its branch argument
    selected,         \* the branch_re its loop stopped at ("" for none)
    result,           \* its return value, by structure
    merges            \* the number of _dict_merge calls made on (D, O)

matchVars == <<rules, pull_request, matching_rules>>
configVars == <<repository, ref, outcome>>

resolveVars ==
    <<heap, insertion, heap0, pre, op, branch, selected, result, merges>>

vars == <<matchVars, configVars, resolveVars>>

-----------------------------------------------------------------------------
(* Bounds of the rule matcher's inputs.                                   *)
MaxRules == 2
MaxConds == 2

(* Bounds of the policy documents: the number of keys of `branches` where *)
(* the selection is examined, and where the merged policy is.             *)
MaxSelectKeys == 3
MaxMergeKeys == 2

(* Bounds of the stand-alone merges: the number of distinct list leaves   *)
(* and the number of times the override is merged onto the base.          *)
MaxLeaf == 1
MaxMerges == 2

(* Sequences over S of length at most n.                                  *)
SeqUpTo(S, n) == UNION {[1..k -> S] : k \in 0..n}

-----------------------------------------------------------------------------
(* Rule matcher                                                           *)

BASE_ATTRIBUTES ==
    {"head", "base", "author", "merged_by", "body", "title", "files"}

(* Attributes the modelled conditions read: one base, two not.            *)
CondAttributes == {"files", "label", "status"}

(* A compiled condition (filter.Filter): attribute = value.               *)
Conditions == [attribute_name : CondAttributes, value : {"x"}]

RuleNames == {"A", "B"}

Rules == [name : RuleNames, conditions : SeqUpTo(Conditions, MaxConds)]

(* pull_request.to_dict(): every attribute holds value x or another one.  *)
PullRequests == [CondAttributes -> {"x", "y"}]

NoPullRequest == [a \in CondAttributes |-> "none"]

\* condition called on d: the filter holds when the attribute has its value.
Eval(condition, d) == d[condition.attribute_name] = condition.value

\* `if not condition(...)`
ConditionFails(condition, d) == ~Eval(condition, d)

IgnoreRuleMutant(condition) ==
    condition.attribute_name \in BASE_ATTRIBUTES \ {"files"}

(* `if condition.attribute_name in self.BASE_ATTRIBUTES: break`           *)
IgnoreRule(condition) == condition.attribute_name \in BASE_ATTRIBUTES

AppendPendingMutant(next_conditions_to_validate, condition) ==
    <<condition>> \o next_conditions_to_validate

(* `next_conditions_to_validate.append(condition)`                        *)
AppendPending(next_conditions_to_validate, condition) ==
    Append(next_conditions_to_validate, condition)

AppendMatchMutant(matching, i, next_conditions_to_validate) ==
    <<[rule |-> i, pending |-> next_conditions_to_validate]>> \o matching

(* `self.matching_rules.append((rule, next_conditions_to_validate))`.     *)
(* The rule is the object of self.rules itself: its identity is its       *)
(* position i in the list.                                                *)
AppendMatch(matching, i, next_conditions_to_validate) ==
    Append(matching, [rule |-> i, pending |-> next_conditions_to_validate])

(* The inner for/else over rule['conditions'], from condition j on.       *)
(* matched is FALSE when the loop left by break, TRUE when it ran out.    *)
RECURSIVE ConditionLoop(_, _, _, _)
ConditionLoop(conditions, j, d, next_conditions_to_validate) ==
    IF j > Len(conditions)
    THEN [matched |-> TRUE, pending |-> next_conditions_to_validate]
    ELSE IF ConditionFails(conditions[j], d)
         THEN IF IgnoreRule(conditions[j])
              THEN [matched |-> FALSE, pending |-> next_conditions_to_validate]
              ELSE ConditionLoop(conditions, j + 1, d,
                       AppendPending(next_conditions_to_validate, conditions[j]))
         ELSE ConditionLoop(conditions, j + 1, d, next_conditions_to_validate)

(* The outer loop `for rule in self.rules`, from rule i on.               *)
RECURSIVE RuleLoop(_, _, _, _)
RuleLoop(rs, i, d, matching) ==
    IF i > Len(rs)
    THEN matching
    ELSE LET r == ConditionLoop(rs[i].conditions, 1, d, <<>>)
         IN  RuleLoop(rs, i + 1, d,
                 IF r.matched THEN AppendMatch(matching, i, r.pending)
                              ELSE matching)

(* PullRequestRuleForPR.__attrs_post_init__                               *)
attrs_post_init(rs, pr) == RuleLoop(rs, 1, pr, <<>>)

-----------------------------------------------------------------------------
(* Configuration loader                                                   *)

(* Bounds of the position a YAML parse error reports (problem_mark).      *)
MaxLine == 1
MaxColumn == 1

Refs == {"NotSet", "refs/heads/next"}

(* Statuses a GithubException of repository.get_contents may carry.       *)
Statuses == {403, 404, 500}

TopLevelKeys == {"rules", "pull_request_rules"}

(* What repository.get_contents(".mergify.yml", ref) can give: a          *)
(* GithubException with a status, or content.  Content is told apart by   *)
(* what yaml.safe_load makes of it: a YAMLError with a problem_mark, a    *)
(* YAMLError without one, or a parsed value.  A parsed value is null      *)
(* (keys "null") or a mapping with some of the two top-level keys, each   *)
(* holding a value its own schema accepts (ok) or not.                    *)
FetchFailures ==
    [kind : {"GithubException"}, status : Statuses, line : {0}, column : {0},
     keys : {{}}, ok : {FALSE}]

MarkedParseErrors ==
    [kind : {"YAMLError_mark"}, status : {200}, line : 0..MaxLine,
     column : 0..MaxColumn, keys : {{}}, ok : {FALSE}]

UnmarkedParseErrors ==
    [kind : {"YAMLError"}, status : {200}, line : {0}, column : {0},
     keys : {{}}, ok : {FALSE}]

ParsedNull ==
    [kind : {"null"}, status : {200}, line : {0}, column : {0},
     keys : {{}}, ok : {FALSE}]

ParsedMappings ==
    [kind : {"mapping"}, status : {200}, line : {0}, column : {0},
     keys : SUBSET TopLevelKeys, ok : BOOLEAN]

Files ==
    FetchFailures \cup MarkedParseErrors \cup UnmarkedParseErrors
        \cup ParsedNull \cup ParsedMappings

(* UserConfigurationSchemaV1: a mapping with the one key `rules`, its     *)
(* value a legacy rules mapping or null.                                  *)
UserConfigurationSchemaV1(file) ==
    file.kind = "mapping" /\ file.keys = {"rules"} /\ file.ok

(* UserConfigurationSchemaV2: a mapping with the one key                  *)
(* `pull_request_rules`, its value coerced to PullRequestRules.           *)
UserConfigurationSchemaV2(file) ==
    file.kind = "mapping" /\ file.keys = {"pull_request_rules"} /\ file.ok

(* UserConfigurationSchema: SomeOf(min_valid=1, max_valid=1).             *)
UserConfigurationSchema(file) ==
    Cardinality({v \in {1, 2} :
        IF v = 1 THEN UserConfigurationSchemaV1(file)
                 ELSE UserConfigurationSchemaV2(file)}) = 1

Outcome(kind, exc, status, detail, line, column, doc) ==
    [kind |-> kind, exc |-> exc, status |-> status, detail |-> detail,
     line |-> line, column |-> column, doc |-> doc]

(* NoRules(): ".mergify.yml is missing"                                   *)
NoRules == Outcome("raise", "NoRules", 0, ".mergify.yml is missing", 0, 0, {})

(* InvalidRules(detail): "Mergify configuration is invalid: %s" % detail  *)
InvalidRules(detail, line, column) ==
    Outcome("raise", "InvalidRules", 0, detail, line, column, {})

NotFoundMutant(file) == file.status >= 404

(* `if e.status != 404: raise` falls through to `raise NoRules()`.        *)
NotFound(file) == file.status = 404

(* get_mergify_config(repository, ref), on what get_contents gives.       *)
mergify_config(file) ==
    IF file.kind = "GithubException"
    THEN IF ~NotFound(file)
         THEN Outcome("raise", "GithubException", file.status, "", 0, 0, {})
         ELSE NoRules
    ELSE IF file.kind = "YAMLError_mark"
    THEN InvalidRules("position (%s:%s)", file.line + 1, file.column + 1)
    ELSE IF file.kind = "YAMLError"
    THEN InvalidRules("str(e)", 0, 0)
    ELSE IF ~UserConfigurationSchema(file)
    THEN InvalidRules("str(e)", 0, 0)
    ELSE Outcome("return", "", 0, "", 0, 0, file.keys)

-----------------------------------------------------------------------------
(* Values and the heap                                                    *)

(* A value is a tagged sequence of strings: null, a string, a list (held  *)
(* whole: the code never writes into a list) or a reference to a dict     *)
(* object.  A dict object has an identity and maps keys to values.        *)
NULL == <<"null">>
DICT == <<"dict">>
Str(s) == <<"str", s>>
Bool(s) == <<"bool", s>>
List(s) == <<"list">> \o s
Ref(id) == <<"ref">> \o id
Target(v) == Tail(v)

(* isinstance(v, dict) / isinstance(v, collections.Mapping)               *)
IsMapping(v) == v[1] = "ref"

(* A value by structure: the set of <<path, leaf>> below it, a dict       *)
(* standing at its own path as DICT.                                      *)
Under(path, flat) == {<<path \o e[1], e[2]>> : e \in flat}

RECURSIVE Flatten(_, _)
Flatten(h, v) ==
    IF IsMapping(v)
    THEN {<<<<>>, DICT>>} \cup
         UNION {Under(<<k>>, Flatten(h, h[Target(v)][k])) :
                    k \in DOMAIN h[Target(v)]}
    ELSE {<<<<>>, v>>}

ChildrenOf(flat, p) ==
    {e \in flat : Len(e[1]) = Len(p) + 1 /\ SubSeq(e[1], 1, Len(p)) = p}

(* The dict objects of a structure, built at identities root \o path.     *)
Alloc(flat, root) ==
    [id \in {root \o e[1] : e \in {x \in flat : x[2] = DICT}} |->
        LET p == SubSeq(id, Len(root) + 1, Len(id))
        IN  [k \in {e[1][Len(p) + 1] : e \in ChildrenOf(flat, p)} |->
                LET e == CHOOSE x \in ChildrenOf(flat, p) : x[1][Len(p) + 1] = k
                IN  IF e[2] = DICT THEN Ref(root \o e[1]) ELSE e[2]]]

RULES == <<"rules">>
DEFAULT_RULE == <<"DEFAULT_RULE">>
COPY == <<"copy">>

(* copy.deepcopy(DEFAULT_RULE): a new object for every object of the      *)
(* built-in default, holding the same keys, its references led to the new *)
(* objects.                                                               *)
deepcopy(h) ==
    [id \in {COPY \o Tail(i) : i \in {j \in DOMAIN h : j[1] = DEFAULT_RULE[1]}} |->
        [k \in DOMAIN h[DEFAULT_RULE \o Tail(id)] |->
            LET v == h[DEFAULT_RULE \o Tail(id)][k]
            IN  IF IsMapping(v) THEN Ref(COPY \o Tail(Target(v))) ELSE v]] @@ h

(* The objects left once a call has returned and its copy is dropped.     *)
Collect(h) == [id \in {i \in DOMAIN h : i[1] # COPY[1]} |-> h[id]]

-----------------------------------------------------------------------------
(* _dict_merge                                                            *)

RECURSIVE dict_merge(_, _, _)

AssignMutant(h, dct, k, v) ==
    IF k \in DOMAIN h[dct] /\ h[dct][k][1] = "list" /\ v[1] = "list"
    THEN [h EXCEPT ![dct] = (k :> (h[dct][k] \o Tail(v))) @@ h[dct]]
    ELSE [h EXCEPT ![dct] = (k :> v) @@ h[dct]]

(* `dct[k] = merge_dct[k]`: the value itself, a dict by reference.        *)
Assign(h, dct, k, v) == [h EXCEPT ![dct] = (k :> v) @@ h[dct]]

BothMappingsMutant(h, dct, merge_dct, k) == FALSE

(* `k in dct and isinstance(dct[k], dict) and                             *)
(*  isinstance(merge_dct[k], collections.Mapping)`                        *)
BothMappings(h, dct, merge_dct, k) ==
    /\ k \in DOMAIN h[dct]
    /\ IsMapping(h[dct][k])
    /\ IsMapping(h[merge_dct][k])

MergeNestedMutant(h, dct, merge_dct, k) ==
    dict_merge(h, Target(h[merge_dct][k]), Target(h[dct][k]))

(* `_dict_merge(dct[k], merge_dct[k])`                                    *)
MergeNested(h, dct, merge_dct, k) ==
    dict_merge(h, Target(h[dct][k]), Target(h[merge_dct][k]))

(* The loop `for k, v in merge_dct.items()` over the keys left.  No two   *)
(* keys of one dict lead to the same object, so the order of the keys     *)
(* does not show in the heap the loop leaves.                             *)
RECURSIVE MergeItems(_, _, _, _)
MergeItems(h, dct, merge_dct, keys) ==
    IF keys = {}
    THEN h
    ELSE LET k == CHOOSE x \in keys : TRUE
         IN  MergeItems(
                 IF BothMappings(h, dct, merge_dct, k)
                 THEN MergeNested(h, dct, merge_dct, k)
                 ELSE Assign(h, dct, k, h[merge_dct][k]),
                 dct, merge_dct, keys \ {k})

(* _dict_merge(dct, merge_dct): the heap it leaves; it returns dct.       *)
dict_merge(h, dct, merge_dct) ==
    MergeItems(h, dct, merge_dct, DOMAIN h[merge_dct])

-----------------------------------------------------------------------------
(* Branch selection                                                       *)

(* The code points of the strings used as branch keys and branch names.   *)
Chars(s) ==
    CASE s = "^feature/.*" -> <<94, 102, 101, 97, 116, 117, 114, 101, 47, 46, 42>>
      [] s = "feature/*" -> <<102, 101, 97, 116, 117, 114, 101, 47, 42>>
      [] s = "main" -> <<109, 97, 105, 110>>
      [] s = "^release/.*" -> <<94, 114, 101, 108, 101, 97, 115, 101, 47, 46, 42>>
      [] s = "^ma.*" -> <<94, 109, 97, 46, 42>>
      [] s = "master" -> <<109, 97, 115, 116, 101, 114>>
      [] s = "release/1.0" -> <<114, 101, 108, 101, 97, 115, 101, 47, 49, 46, 48>>
      [] s = "feature/x" -> <<102, 101, 97, 116, 117, 114, 101, 47, 120>>

(* Python's order of str: by code point, a proper prefix first.           *)
RECURSIVE LexLess(_, _)
LexLess(a, b) ==
    IF a = <<>> THEN b # <<>>
    ELSE IF b = <<>> THEN FALSE
    ELSE IF a[1] # b[1] THEN a[1] < b[1]
    ELSE LexLess(Tail(a), Tail(b))

RECURSIVE InsertSorted(_, _)
InsertSorted(sorted_keys, k) ==
    IF sorted_keys = <<>> THEN <<k>>
    ELSE IF LexLess(Chars(k), Chars(Head(sorted_keys)))
         THEN <<k>> \o sorted_keys
         ELSE <<Head(sorted_keys)>> \o InsertSorted(Tail(sorted_keys), k)

RECURSIVE SortFrom(_, _, _)
SortFrom(keys, i, sorted_keys) ==
    IF i > Len(keys) THEN sorted_keys
    ELSE SortFrom(keys, i + 1, InsertSorted(sorted_keys, keys[i]))

sortedMutant(keys) == keys

(* sorted(keys): the keys of the dict, taken in its order, sorted.        *)
sorted(keys) == SortFrom(keys, 1, <<>>)

(* re.match for the patterns used: literals, `.`, `x*` and a leading `^`; *)
(* the pattern has to match a prefix of the string.                       *)
RECURSIVE MatchHere(_, _)
MatchStar(c, re, text) ==
    \E n \in 0..Len(text) :
        /\ \A m \in 1..n : c = 46 \/ c = text[m]
        /\ MatchHere(re, SubSeq(text, n + 1, Len(text)))

MatchHere(re, text) ==
    IF re = <<>> THEN TRUE
    ELSE IF Len(re) >= 2 /\ re[2] = 42
         THEN MatchStar(re[1], SubSeq(re, 3, Len(re)), text)
    ELSE IF text # <<>> /\ (re[1] = 46 \/ re[1] = text[1])
         THEN MatchHere(Tail(re), Tail(text))
    ELSE FALSE

re_match(pattern, string) ==
    IF pattern # <<>> /\ pattern[1] = 94
    THEN MatchHere(Tail(pattern), string)
    ELSE MatchHere(pattern, string)

(* `(branch_re[0] == "^" and re.match(branch_re, branch)) or              *)
(*  (branch_re[0] != "^" and branch_re == branch)`                        *)
KeyMatches(branch_re, b) ==
    \/ Chars(branch_re)[1] = 94 /\ re_match(Chars(branch_re), Chars(b))
    \/ Chars(branch_re)[1] # 94 /\ branch_re = b

-----------------------------------------------------------------------------
(* Policy resolution                                                      *)

Returned(h, ret, branch_re) == [heap |-> h, ret |-> ret, branch_re |-> branch_re]

DefaultDisabledMutant(h) ==
    "default" \notin DOMAIN h[RULES] \/ h[RULES]["default"] = NULL

(* `"default" in rules and rules["default"] is None`                      *)
DefaultDisabled(h) ==
    "default" \in DOMAIN h[RULES] /\ h[RULES]["default"] = NULL

(* `rules.get("default") is not None`                                     *)
HasDefault(h) ==
    "default" \in DOMAIN h[RULES] /\ h[RULES]["default"] # NULL

(* rules["branches"][branch_re]                                           *)
BranchValue(h, branch_re) == h[Target(h[RULES]["branches"])][branch_re]

(* get_merged_branch_rule(rules, branch_re); branch_re "" is None.        *)
get_merged_branch_rule(h, branch_re) ==
    LET copied == deepcopy(h)
        default_rules ==
            IF HasDefault(copied)
            THEN dict_merge(copied, COPY, Target(copied[RULES]["default"]))
            ELSE copied
    IN  IF branch_re # ""
        THEN IF BranchValue(default_rules, branch_re) = NULL
             THEN Returned(default_rules, NULL, branch_re)
             ELSE Returned(dict_merge(default_rules, COPY,
                               Target(BranchValue(default_rules, branch_re))),
                           Ref(COPY), branch_re)
        ELSE IF DefaultDisabled(default_rules)
             THEN Returned(default_rules, NULL, branch_re)
             ELSE Returned(default_rules, Ref(COPY), branch_re)

(* The loop of build_branch_rule over the sorted keys, from key i on.     *)
RECURSIVE BranchLoop(_, _, _, _)
BranchLoop(h, sorted_keys, i, b) ==
    IF i > Len(sorted_keys)
    THEN get_merged_branch_rule(h, "")
    ELSE IF KeyMatches(sorted_keys[i], b)
         THEN IF BranchValue(h, sorted_keys[i]) = NULL
              THEN Returned(h, NULL, sorted_keys[i])
              ELSE get_merged_branch_rule(h, sorted_keys[i])
         ELSE BranchLoop(h, sorted_keys, i + 1, b)

(* build_branch_rule(rules, branch); keys is rules.get("branches", {})    *)
(* in its insertion order.                                                *)
build_branch_rule(h, keys, b) ==
    BranchLoop(h, sorted(IF "branches" \in DOMAIN h[RULES] THEN keys ELSE <<>>),
               1, b)

(* validate_merged_config(config): Schema(Rule, required=True), for the   *)
(* keys of Rule that the modelled policies use.                           *)
HasAt(flat, path, tags) == \E e \in flat : e[1] = path /\ e[2][1] \in tags

RulePaths ==
    {<<>>, <<"disabling_label">>, <<"protection">>,
     <<"protection", "enforce_admins">>, <<"protection", "restrictions">>,
     <<"protection", "restrictions", "teams">>,
     <<"protection", "restrictions", "users">>}

validate_merged_config(flat) ==
    /\ \A e \in flat : e[1] \in RulePaths
    /\ HasAt(flat, <<>>, {"dict"})
    /\ HasAt(flat, <<"disabling_label">>, {"str"})
    /\ HasAt(flat, <<"protection">>, {"dict"})
    /\ HasAt(flat, <<"protection", "enforce_admins">>, {"null", "bool"})
    /\ HasAt(flat, <<"protection", "restrictions">>, {"null", "dict"})
    /\ HasAt(flat, <<"protection", "restrictions">>, {"dict"}) =>
           /\ HasAt(flat, <<"protection", "restrictions", "teams">>, {"list"})
           /\ HasAt(flat, <<"protection", "restrictions", "users">>, {"list"})

NoneValue == {<<<<>>, NULL>>}
InvalidRulesRaised == {<<<<>>, <<"raise", "InvalidRules">>>>}

(* get_branch_rule(rules, branch); rules is None when the heap holds no   *)
(* rules object.                                                          *)
get_branch_rule(h, keys, b) ==
    IF RULES \notin DOMAIN h
    THEN [heap |-> h, value |-> NoneValue, branch_re |-> ""]
    ELSE LET r == build_branch_rule(h, keys, b)
             rule == Flatten(r.heap, r.ret)
         IN  [heap |-> r.heap,
              value |-> IF r.ret = NULL THEN NoneValue
                        ELSE IF validate_merged_config(rule) THEN rule
                        ELSE InvalidRulesRaised,
              branch_re |-> r.branch_re]

-----------------------------------------------------------------------------
(* Inputs                                                                 *)

EmptyRule == {<<<<>>, DICT>>}

Label(l) == {<<<<"disabling_label">>, Str(l)>>}

Restrictions(teams, users) ==
    {<<<<"protection">>, DICT>>,
     <<<<"protection", "restrictions">>, DICT>>,
     <<<<"protection", "restrictions", "teams">>, List(teams)>>,
     <<<<"protection", "restrictions", "users">>, List(users)>>}

NoRestrictions ==
    {<<<<"protection">>, DICT>>, <<<<"protection", "restrictions">>, NULL>>}

Admins(b) ==
    {<<<<"protection">>, DICT>>, <<<<"protection", "enforce_admins">>, Bool(b)>>}

(* Policies a document may hold (Rule, every key optional).               *)
MergeRules ==
    {EmptyRule \cup x : x \in
        {Label("wip") \cup Restrictions(<<"a">>, <<>>), Label("frozen"),
         Restrictions(<<>>, <<"b">>), NoRestrictions}}

SelectRules == {EmptyRule \cup Label("frozen")}

(* data/default_rule.yml: every key of Rule set; `restrictions` either    *)
(* null or a mapping.                                                     *)
DefaultRules ==
    {EmptyRule \cup Label("no-mergify") \cup Admins("true") \cup x : x \in
        {NoRestrictions, Restrictions(<<>>, <<>>)}}

(* Keys of `branches` and branch names.  The keys are non-empty and, when  *)
(* they start with `^`, well-formed patterns: on an empty key             *)
(* `branch_re[0]` raises IndexError, on a malformed one re.match raises.  *)
SelectKeys == {"^feature/.*", "feature/*", "main", "^ma.*"}
MergeKeys == {"main", "^release/.*", "^ma.*"}
Branches == {"main", "master", "release/1.0", "feature/x"}

InjectiveSeqs(S, n) ==
    {q \in SeqUpTo(S, n) : \A i, j \in 1..Len(q) : q[i] = q[j] => i = j}

(* The rules mapping of a legacy document: `default` absent ({}), null or *)
(* a policy; `branches` with the given keys, each null or a policy.       *)
Document(default, keys, values) ==
    {<<<<>>, DICT>>} \cup Under(<<"default">>, default) \cup
    (IF keys = <<>> THEN {}
     ELSE {<<<<"branches">>, DICT>>} \cup
          UNION {Under(<<"branches", keys[i]>>, values[i]) : i \in 1..Len(keys)})

(* Nested mappings for the stand-alone merges: two keys, two levels.      *)
LeafNames == <<"x", "y", "z">>
Leaves == {{<<<<>>, NULL>>}} \cup
          {{<<<<>>, List(<<LeafNames[i]>>)>>} : i \in 1..MaxLeaf}
DictKeys == {"a", "b"}
DictsOver(values) ==
    UNION {{EmptyRule \cup UNION {Under(<<k>>, f[k]) : k \in S} :
               f \in [S -> values]} : S \in SUBSET DictKeys}
Mappings == DictsOver(Leaves \cup DictsOver(Leaves))

BASE == <<"D">>
OVERRIDE == <<"O">>

-----------------------------------------------------------------------------
(* Operations and specifications                                          *)

(* PullRequestRules.get_pull_request_rule(pull_request): it builds one    *)
(* PullRequestRuleForPR, whose matching_rules starts empty and is filled  *)
(* once, by __attrs_post_init__.                                          *)
get_pull_request_rule(pr) ==
    /\ pull_request = NoPullRequest
    /\ pull_request' = pr
    /\ matching_rules' = attrs_post_init(rules, pr)
    /\ UNCHANGED <<rules, configVars, resolveVars>>

IdleMatch ==
    /\ rules = <<>>
    /\ pull_request = NoPullRequest
    /\ matching_rules = <<>>

IdleConfig ==
    /\ repository = <<>>
    /\ ref = "none"
    /\ outcome = "none"

IdleResolve ==
    /\ heap = <<>>
    /\ insertion = <<>>
    /\ heap0 = <<>>
    /\ pre = <<>>
    /\ op = "none"
    /\ branch = "none"
    /\ selected = ""
    /\ result = {}
    /\ merges = 0

InitMatch ==
    /\ rules \in SeqUpTo(Rules, MaxRules)
    /\ pull_request = NoPullRequest
    /\ matching_rules = <<>>
    /\ IdleConfig
    /\ IdleResolve

(* get_mergify_config(repository, ref)                                    *)
get_mergify_config(r) ==
    /\ ref' = r
    /\ outcome' = mergify_config(repository[r])
    /\ UNCHANGED <<repository, matchVars, resolveVars>>

InitConfig ==
    /\ repository \in [Refs -> Files]
    /\ ref = "none"
    /\ outcome = "none"
    /\ IdleMatch
    /\ IdleResolve

NextConfig == \E r \in Refs : get_mergify_config(r)

SpecConfig == InitConfig /\ [][NextConfig]_vars

NextMatch == \E pr \in PullRequests : get_pull_request_rule(pr)

SpecMatch == InitMatch /\ [][NextMatch]_vars

(* A call on the loaded document: the heap it leaves, what it returned.   *)
Call(name, b, h, value, branch_re) ==
    /\ heap' = Collect(h)
    /\ pre' = heap
    /\ op' = name
    /\ branch' = b
    /\ selected' = branch_re
    /\ result' = value
    /\ UNCHANGED <<insertion, heap0, merges, matchVars, configVars>>

BuildBranchRule(b) ==
    /\ RULES \in DOMAIN heap
    /\ LET r == build_branch_rule(heap, insertion, b)
       IN  Call("build_branch_rule", b, r.heap, Flatten(r.heap, r.ret),
                r.branch_re)

GetBranchRule(b) ==
    LET r == get_branch_rule(heap, insertion, b)
    IN  Call("get_branch_rule", b, r.heap, r.value, r.branch_re)

Loaded(h, keys) ==
    /\ heap = h
    /\ insertion = keys
    /\ heap0 = h
    /\ pre = h
    /\ op = "none"
    /\ branch = "none"
    /\ selected = ""
    /\ result = {}
    /\ merges = 0
    /\ IdleMatch
    /\ IdleConfig

InitDocuments(Keys, Policies, n) ==
    \E keys \in InjectiveSeqs(Keys, n) :
        \E values \in [1..Len(keys) -> {NoneValue} \cup Policies] :
            \E default \in {{}, NoneValue} \cup Policies :
                \E builtin \in DefaultRules :
                    Loaded(Alloc(Document(default, keys, values), RULES)
                               @@ Alloc(builtin, DEFAULT_RULE), keys)

(* A document whose `rules` is null: only the built-in default is there.  *)
InitNoRules ==
    \E builtin \in DefaultRules : Loaded(Alloc(builtin, DEFAULT_RULE), <<>>)

InitSelect ==
    InitDocuments(SelectKeys, SelectRules, MaxSelectKeys) \/ InitNoRules

InitResolve == InitDocuments(MergeKeys, MergeRules, MaxMergeKeys)

NextResolve ==
    \E b \in Branches : BuildBranchRule(b) \/ GetBranchRule(b)

SpecSelect == InitSelect /\ [][NextResolve]_vars

SpecResolve == InitResolve /\ [][NextResolve]_vars

(* _dict_merge(D, O) on two mappings, then again on what it left.         *)
DictMerge ==
    /\ merges < MaxMerges
    /\ heap' = dict_merge(heap, BASE, OVERRIDE)
    /\ pre' = heap
    /\ op' = "_dict_merge"
    /\ result' = Flatten(heap', Ref(BASE))
    /\ merges' = merges + 1
    /\ UNCHANGED <<insertion, heap0, branch, selected, matchVars, configVars>>

InitMerge ==
    \E d \in Mappings : \E o \in Mappings :
        Loaded(Alloc(d, BASE) @@ Alloc(o, OVERRIDE), <<>>)

NextMerge == DictMerge

SpecMerge == InitMerge /\ [][NextMerge]_vars

-----------------------------------------------------------------------------
(* Properties                                                             *)

Range(q) == {q[i] : i \in 1..Len(q)}

Matched == pull_request # NoPullRequest

MatchedRules == {matching_rules[k].rule : k \in 1..Len(matching_rules)}

(* Some condition of the rule is false on a base attribute.               *)
FailsOnBase(rule, d) ==
    \E j \in 1..Len(rule.conditions) :
        /\ ~Eval(rule.conditions[j], d)
        /\ rule.conditions[j].attribute_name \in BASE_ATTRIBUTES

(* C1: a rule with a false condition on a base attribute, wherever it     *)
(* stands among the rule's conditions, is never in matching_rules, and no *)
(* pending list holds a condition on a base attribute.                    *)
C1_BaseFailureExcludes ==
    Matched =>
        /\ \A i \in 1..Len(rules) :
               FailsOnBase(rules[i], pull_request) => i \notin MatchedRules
        /\ \A k \in 1..Len(matching_rules) :
               \A j \in 1..Len(matching_rules[k].pending) :
                   matching_rules[k].pending[j].attribute_name
                       \notin BASE_ATTRIBUTES

(* A rule whose first condition fails on `label` and whose second fails   *)
(* on `files` was left out, while another rule matched.                   *)
C1_Witness ==
    /\ Matched
    /\ matching_rules # <<>>
    /\ \E i \in 1..Len(rules) :
           /\ Len(rules[i].conditions) = 2
           /\ rules[i].conditions[1].attribute_name = "label"
           /\ rules[i].conditions[2].attribute_name = "files"
           /\ ~Eval(rules[i].conditions[1], pull_request)
           /\ ~Eval(rules[i].conditions[2], pull_request)
           /\ i \notin MatchedRules

FalseConditions(rule, d) ==
    LET IsFalse(c) == ~Eval(c, d) IN SelectSeq(rule.conditions, IsFalse)

(* C2: every rule with no false condition on a base attribute is in       *)
(* matching_rules, paired with exactly its false conditions, in the order *)
(* the rule declares them; a rule without conditions always matches, with *)
(* nothing pending.                                                       *)
C2_PendingAreTheFalseConditions ==
    Matched =>
        \A i \in 1..Len(rules) :
            ~FailsOnBase(rules[i], pull_request) =>
                /\ \E k \in 1..Len(matching_rules) :
                       /\ matching_rules[k].rule = i
                       /\ matching_rules[k].pending
                              = FalseConditions(rules[i], pull_request)
                /\ rules[i].conditions = <<>> =>
                       \E k \in 1..Len(matching_rules) :
                           /\ matching_rules[k].rule = i
                           /\ matching_rules[k].pending = <<>>

(* A rule matched with two different conditions pending.                  *)
C2_Witness ==
    /\ Matched
    /\ \E k \in 1..Len(matching_rules) :
           /\ Len(matching_rules[k].pending) = 2
           /\ matching_rules[k].pending[1] # matching_rules[k].pending[2]

(* C3: matching_rules lists rules of the input list in the input's        *)
(* order, each position at most once, also when rules share a name.       *)
C3_MatchesKeepInputOrder ==
    Matched =>
        /\ \A k \in 1..Len(matching_rules) :
               matching_rules[k].rule \in 1..Len(rules)
        /\ \A k, l \in 1..Len(matching_rules) :
               k < l => matching_rules[k].rule < matching_rules[l].rule

(* Two rules of the same name both matched.                               *)
C3_Witness ==
    /\ Matched
    /\ Len(matching_rules) = 2
    /\ rules[1].name = rules[2].name
    /\ rules[1].conditions # rules[2].conditions

-----------------------------------------------------------------------------
(* The claimed selection, stated on the document the call was made on.    *)

Resolved == op \in {"build_branch_rule", "get_branch_rule"} /\ RULES \in DOMAIN pre

(* A key starting with `^` is a regular expression, any other key a name. *)
ClaimedMatch(k, b) ==
    IF Chars(k)[1] = 94 THEN re_match(Chars(k), Chars(b)) ELSE k = b

ClaimedKeys(b) == {k \in Range(insertion) : ClaimedMatch(k, b)}

(* The least matching key in the order of strings, "" when none matches.  *)
ClaimedSelection(b) ==
    IF ClaimedKeys(b) = {} THEN ""
    ELSE CHOOSE k \in ClaimedKeys(b) :
             \A o \in ClaimedKeys(b) \ {k} : LexLess(Chars(k), Chars(o))

Orders(keys) == {q \in [1..Len(keys) -> Range(keys)] : Range(q) = Range(keys)}

C5_NullExactlyWhenDisabled ==
    (op = "build_branch_rule") =>
        ((result = NoneValue) <=>
            \/ /\ ClaimedSelection(branch) # ""
               /\ BranchValue(pre, ClaimedSelection(branch)) = NULL
            \/ /\ ClaimedSelection(branch) = ""
               /\ "default" \in DOMAIN pre[RULES]
               /\ pre[RULES]["default"] = NULL)

(* A null `default` with a matched override that is not null gave a       *)
(* policy.                                                                *)
C5_Witness ==
    /\ op = "build_branch_rule"
    /\ "default" \in DOMAIN pre[RULES]
    /\ pre[RULES]["default"] = NULL
    /\ ClaimedSelection(branch) # ""
    /\ result # NoneValue

-----------------------------------------------------------------------------
(* Deep merge as claimed, on values by structure.                         *)

KeysOf(flat) == {e[1][1] : e \in {x \in flat : x[1] # <<>>}}
ValueAt(flat, k) ==
    {<<Tail(e[1]), e[2]>> : e \in {x \in flat : x[1] # <<>> /\ x[1][1] = k}}
IsDict(flat) == <<<<>>, DICT>> \in flat

RECURSIVE DeepMerge(_, _)
DeepMerge(base, override) ==
    IF IsDict(base) /\ IsDict(override)
    THEN {<<<<>>, DICT>>} \cup
         UNION {Under(<<k>>,
                    IF k \notin KeysOf(override) THEN ValueAt(base, k)
                    ELSE IF k \notin KeysOf(base) THEN ValueAt(override, k)
                    ELSE DeepMerge(ValueAt(base, k), ValueAt(override, k))) :
                k \in KeysOf(base) \cup KeysOf(override)}
    ELSE override

ClaimedPolicy(h, b) ==
    LET builtin == Flatten(h, Ref(DEFAULT_RULE))
        baseline == IF HasDefault(h)
                    THEN DeepMerge(builtin, Flatten(h, h[RULES]["default"]))
                    ELSE builtin
    IN  IF ClaimedSelection(b) = "" THEN baseline
        ELSE DeepMerge(baseline,
                       Flatten(h, BranchValue(h, ClaimedSelection(b))))

(* C6: a policy build_branch_rule returns is the built-in default, deep   *)
(* merged with the document's default when that is not null, deep merged  *)
(* with the selected override if there is one.                            *)
C6_CascadeIsDeepMerge ==
    (op = "build_branch_rule" /\ result # NoneValue) =>
        result = ClaimedPolicy(pre, branch)

(* Default label wip, override ^release/.* with label frozen, branch      *)
(* release/1.0: the label is frozen.                                      *)
C6_Witness ==
    /\ op = "build_branch_rule"
    /\ branch = "release/1.0"
    /\ selected = "^release/.*"
    /\ HasDefault(pre)
    /\ <<<<"disabling_label">>, Str("wip")>> \in Flatten(pre, pre[RULES]["default"])
    /\ <<<<"disabling_label">>, Str("frozen")>> \in result

(* C7: merging the override a second time leaves the base as the first    *)
(* merge left it.                                                         *)
C7_MergeIdempotent ==
    (op = "_dict_merge" /\ merges = 2) =>
        /\ result = Flatten(pre, Ref(BASE))
        /\ result = DeepMerge(Flatten(heap0, Ref(BASE)),
                              Flatten(heap0, Ref(OVERRIDE)))

(* The second merge ran on a base holding a sub-mapping of the override   *)
(* itself, installed by the first merge.                                  *)
C7_Witness ==
    /\ op = "_dict_merge"
    /\ merges = 2
    /\ \E k \in DOMAIN pre[BASE] :
           /\ pre[BASE][k] = Ref(OVERRIDE \o <<k>>)
           /\ DOMAIN pre[OVERRIDE \o <<k>>] # {}

(* C8: _dict_merge leaves every object of its override as it was.         *)
C8_OverrideUntouched ==
    (op = "_dict_merge") =>
        \A id \in DOMAIN heap0 : id[1] = OVERRIDE[1] => heap[id] = heap0[id]

(* A merge that went into a sub-mapping both sides hold, and changed it.  *)
C8_Witness ==
    /\ op = "_dict_merge"
    /\ \E k \in DOMAIN heap0[BASE] \cap DOMAIN heap0[OVERRIDE] :
           /\ IsMapping(heap0[BASE][k])
           /\ IsMapping(heap0[OVERRIDE][k])
           /\ heap[BASE \o <<k>>] # heap0[BASE \o <<k>>]

-----------------------------------------------------------------------------
(* C9: get_mergify_config raises NoRules exactly on a fetch failure of    *)
(* status 404, hands on a fetch failure of any other status as it is,     *)
(* raises InvalidRules with a detail on a YAML error (its position when   *)
(* it has one) or a schema failure, and returns a document otherwise.     *)
C9_ErrorMapping ==
    (ref # "none") =>
        LET file == repository[ref]
            fetched == file.kind # "GithubException"
            parsed == file.kind \in {"null", "mapping"}
            valid == file.kind = "mapping" /\ file.ok
                         /\ Cardinality(file.keys) = 1
        IN  /\ (outcome.exc = "NoRules") <=> (~fetched /\ file.status = 404)
            /\ (~fetched /\ file.status # 404) =>
                   /\ outcome.kind = "raise"
                   /\ outcome.exc = "GithubException"
                   /\ outcome.status = file.status
            /\ (fetched /\ ~(parsed /\ valid)) =>
                   /\ outcome.kind = "raise"
                   /\ outcome.exc = "InvalidRules"
                   /\ outcome.detail # ""
            /\ file.kind = "YAMLError_mark" =>
                   /\ outcome.detail = "position (%s:%s)"
                   /\ outcome.line = file.line + 1
                   /\ outcome.column = file.column + 1
            /\ (outcome.kind = "return") <=> (fetched /\ parsed /\ valid)

(* A fetch failure of status 500 was handed on as it is.                  *)
C9_Witness ==
    /\ ref # "none"
    /\ repository[ref].kind = "GithubException"
    /\ repository[ref].status = 500
    /\ outcome.kind = "raise"
    /\ outcome.exc = "GithubException"
    /\ outcome.status = 500

-----------------------------------------------------------------------------
(* C10: calls of build_branch_rule and get_branch_rule leave the document *)
(* and the built-in default as loaded, and each returns what it would     *)
(* return as the first call on the document as loaded.                    *)
C10_CallsLeaveDocument ==
    Resolved =>
        /\ \A id \in DOMAIN heap0 : id \in DOMAIN heap /\ heap[id] = heap0[id]
        /\ result = IF op = "get_branch_rule"
                    THEN get_branch_rule(heap0, insertion, branch).value
                    ELSE LET r == build_branch_rule(heap0, insertion, branch)
                         IN  Flatten(r.heap, r.ret)

=============================================================================
